---- MODULE Spec2Model ----
(***************************************************************************)
(* A model of the YaRB ring buffers: the classic implementation (YaRB,     *)
(* YaRBt), the counting implementation (YaRBc, YaRBct) and the             *)
(* implementation with full array usage (YaRB2, YaRB2t).                   *)
(*                                                                         *)
(* One buffer object is modelled.  Its class and its capacity are chosen   *)
(* at construction and never change.  Every public method that changes or  *)
(* reads the buffer is one action; the methods themselves are operators    *)
(* over a record s of the member variables, written after the C++ code,    *)
(* with all size_t arithmetic taken modulo 2^WordBits.                     *)
(***************************************************************************)
EXTENDS Integers, Sequences, FiniteSets, TLC

\* Largest capacity a buffer is constructed with.
MaxCapacity == 3

\* Bytes are 0..MaxByte (uint8_t cut down to a few values).
MaxByte == 1

\* Width in bits of size_t.
WordBits == 4

SIZE_MAX == 2^WordBits - 1

\* The value of an expression of type size_t: unsigned, modulo 2^WordBits.
Wrap(x) == x % (SIZE_MAX + 1)

Byte == 0..MaxByte

\* The classes of the library.
ClassicVariants == {"YaRB", "YaRBt"}
CountingVariants == {"YaRBc", "YaRBct"}
FullVariants == {"YaRB2", "YaRB2t"}
TemplateVariants == {"YaRBt", "YaRBct", "YaRB2t"}
Variants == ClassicVariants \cup CountingVariants \cup FullVariants

VARIABLES
    variant,     \* the class of the buffer
    capacity,    \* constructor argument / template parameter CAPACITY
    delim,       \* YaRBc, YaRBct: the delimiter byte
    readindex,   \* index for get()
    writeindex,  \* index for put()
    arr,         \* the array which holds the elements
    ct,          \* YaRBc, YaRBct: counter for delimiter bytes
    fifo,        \* history: the bytes accepted and not yet given back or dropped
    op,          \* the last call: its name,
    args,        \*   its arguments,
    ret,         \*   its return value,
    out,         \*   the bytes it wrote through its output pointer,
    pre,         \*   and the buffer as it was before the call
    other        \* a second buffer object, where the caller has one

vars == <<variant, capacity, delim, readindex, writeindex, arr, ct,
          fifo, op, args, ret, out, pre, other>>

-----------------------------------------------------------------------------
(* Pointers.  A pointer argument is null or points to bytes of the caller. *)

nullptr == [null |-> TRUE, data |-> <<>>]

PointerTo(bytes) == [null |-> FALSE, data |-> bytes]

\* The caller's source array, as the demo sketch fills it (a[i] = 200 + i):
\* n consecutive byte values from first on.
Source(first, n) == [i \in 1..n |-> (first + i - 1) % (MaxByte + 1)]

\* The member variables of the object as one record.  oob is the value a load
\* from outside the array yields during the call at hand.
Self(g) ==
    [readindex |-> readindex, writeindex |-> writeindex, arr |-> arr,
     ct |-> ct, oob |-> g]

\* arr[i] as the machine executes it: inside the array the stored element,
\* outside of it whatever the memory there holds.
Load(s, i) == IF i \in DOMAIN s.arr THEN s.arr[i] ELSE s.oob

\* arr[i] = b.  (No store of the library leaves the array; see the writes
\* in put(): the index there is writeindex.)
Store(s, i, b) ==
    IF i \in DOMAIN s.arr THEN [s EXCEPT !.arr[i] = b] ELSE s

\* What a method gives back: the object after the call, the return value and
\* the bytes written through the output pointer.
Result(s, r, o) == [s |-> s, ret |-> r, out |-> o]

-----------------------------------------------------------------------------
(* Construction.                                                           *)

\* The member cap (YaRB, YaRBc: capacity+1, YaRB2: capacity); for the
\* templates the expressions CAPACITY+1 resp. CAPACITY used in its place.
cap == IF variant \in FullVariants THEN capacity ELSE Wrap(capacity + 1)

-----------------------------------------------------------------------------
(* The classic implementation: YaRB (yarb.cpp) and, with CAPACITY+1 in the *)
(* place of cap and arr in the place of arraypointer, YaRBt (yarbt.hpp).   *)

YaRB_size(s) ==
    IF s.writeindex >= s.readindex
    THEN Wrap(s.writeindex - s.readindex)
    ELSE Wrap(cap - Wrap(s.readindex - s.writeindex))

YaRB_capacity == Wrap(cap - 1)

YaRB_limit == SIZE_MAX - 1

YaRB_free(s) == Wrap(YaRB_capacity - YaRB_size(s))

\* A faulty isFull, against which C13 is tested: the spare slot is
\* forgotten and full is told by equal indices, as empty is.
YaRB_isFull_NoSpareSlot(s) == s.readindex = s.writeindex % cap

YaRB_isFull(s) == s.readindex = Wrap(s.writeindex + 1) % cap

YaRB_isEmpty(s) == s.readindex = s.writeindex

\* A faulty flush, against which C21 is tested: the buffer is emptied by
\* taking writeindex back to readindex.
YaRB_flush_MovesWriteindex(s) == [s EXCEPT !.writeindex = s.readindex]

YaRB_flush(s) == [s EXCEPT !.readindex = s.writeindex]

YaRB_put(s, new_element) ==
    IF YaRB_isFull(s)
    THEN Result(s, 0, <<>>)
    ELSE LET stored == Store(s, s.writeindex, new_element)
         IN  Result([stored EXCEPT !.writeindex = Wrap(s.writeindex + 1) % cap],
                    1, <<>>)

\* The for loop of the bulk put, from iteration i on; new_elements[i+1] is
\* the element the advancing source pointer points to in iteration i.
RECURSIVE YaRB_putLoop(_, _, _, _)
YaRB_putLoop(s, new_elements, nbr_elements, i) ==
    IF i < nbr_elements
    THEN LET stored == Store(s, s.writeindex, new_elements[i + 1])
         IN  YaRB_putLoop(
                 [stored EXCEPT !.writeindex = Wrap(s.writeindex + 1) % cap],
                 new_elements, nbr_elements, i + 1)
    ELSE s

\* A faulty bulk put, against which C4 is tested: only_complete is ignored
\* and the elements that fit are added.
YaRB_putN_IgnoresOnlyComplete(s, new_elements, nbr_elements, only_complete) ==
    IF new_elements.null
    THEN Result(s, 0, <<>>)
    ELSE LET n == IF nbr_elements > YaRB_free(s)
                  THEN YaRB_free(s) ELSE nbr_elements
         IN  Result(YaRB_putLoop(s, new_elements.data, n, 0), n, <<>>)

YaRB_putN(s, new_elements, nbr_elements, only_complete) ==
    IF new_elements.null
    THEN Result(s, 0, <<>>)
    ELSE IF nbr_elements > YaRB_free(s) /\ only_complete
    THEN Result(s, 0, <<>>)
    ELSE LET n == IF nbr_elements > YaRB_free(s)
                  THEN YaRB_free(s) ELSE nbr_elements
         IN  Result(YaRB_putLoop(s, new_elements.data, n, 0), n, <<>>)

YaRB_peek(s, peeked_element) ==
    IF YaRB_isEmpty(s) \/ peeked_element.null
    THEN Result(s, 0, <<>>)
    ELSE Result(s, 1, <<Load(s, s.readindex)>>)

\* A faulty discard, against which C10 is tested: when everything is
\* discarded it returns the number asked for, not the number discarded.
YaRB_discard_ReturnsRequest(s, nbr_elements) ==
    IF YaRB_size(s) > nbr_elements
    THEN LET diff_to_max == Wrap(cap - s.readindex)
         IN  IF nbr_elements > diff_to_max
             THEN Result([s EXCEPT !.readindex = Wrap(nbr_elements - diff_to_max)],
                         nbr_elements, <<>>)
             ELSE Result([s EXCEPT !.readindex = Wrap(s.readindex + nbr_elements)],
                         nbr_elements, <<>>)
    ELSE Result(YaRB_flush(s), nbr_elements, <<>>)

YaRB_discard(s, nbr_elements) ==
    IF YaRB_size(s) > nbr_elements
    THEN LET diff_to_max == Wrap(cap - s.readindex)
         IN  IF nbr_elements > diff_to_max
             THEN Result([s EXCEPT !.readindex = Wrap(nbr_elements - diff_to_max)],
                         nbr_elements, <<>>)
             ELSE Result([s EXCEPT !.readindex = Wrap(s.readindex + nbr_elements)],
                         nbr_elements, <<>>)
    ELSE Result(YaRB_flush(s), YaRB_size(s), <<>>)

YaRB_get(s, returned_element) ==
    IF YaRB_isEmpty(s) \/ returned_element.null
    THEN Result(s, 0, <<>>)
    ELSE Result([s EXCEPT !.readindex = Wrap(s.readindex + 1) % cap],
                1, <<Load(s, s.readindex)>>)

\* The for loop of the bulk get, from iteration i on; o holds the elements
\* written through the advancing destination pointer so far.
RECURSIVE YaRB_getLoop(_, _, _, _)
YaRB_getLoop(s, nbr_elements, i, o) ==
    IF i < nbr_elements
    THEN YaRB_getLoop([s EXCEPT !.readindex = Wrap(s.readindex + 1) % cap],
                      nbr_elements, i + 1, Append(o, Load(s, s.readindex)))
    ELSE Result(s, nbr_elements, o)

\* A faulty bulk get, against which C8 is tested: the output pointer is
\* not checked.
YaRB_getN_NoNullCheck(s, returned_elements, nbr_elements) ==
    LET n == IF nbr_elements > YaRB_size(s) THEN YaRB_size(s) ELSE nbr_elements
    IN  YaRB_getLoop(s, n, 0, <<>>)

YaRB_getN(s, returned_elements, nbr_elements) ==
    IF returned_elements.null
    THEN Result(s, 0, <<>>)
    ELSE LET n == IF nbr_elements > YaRB_size(s)
                  THEN YaRB_size(s) ELSE nbr_elements
         IN  YaRB_getLoop(s, n, 0, <<>>)

-----------------------------------------------------------------------------
(* The counting implementation: YaRBc (yarbc.cpp) and YaRBct (yarbct.hpp). *)
(* peek(), size(), free(), capacity(), isFull() and isEmpty() are the same *)
(* code as in YaRB; put(), get(), discard() and flush() maintain ct.       *)

\* A faulty flush, against which C19 is tested: the counter of delimiter
\* bytes is left as it is.
YaRBc_flush_KeepsCount(s) == [s EXCEPT !.readindex = s.writeindex]

YaRBc_flush(s) == [s EXCEPT !.readindex = s.writeindex, !.ct = 0]

YaRBc_put(s, new_element) ==
    IF YaRB_isFull(s)
    THEN Result(s, 0, <<>>)
    ELSE LET counted == IF new_element = delim
                        THEN [s EXCEPT !.ct = Wrap(s.ct + 1)] ELSE s
             stored == Store(counted, s.writeindex, new_element)
         IN  Result([stored EXCEPT !.writeindex = Wrap(s.writeindex + 1) % cap],
                    1, <<>>)

RECURSIVE YaRBc_putLoop(_, _, _, _)
YaRBc_putLoop(s, new_elements, nbr_elements, i) ==
    IF i < nbr_elements
    THEN LET counted == IF new_elements[i + 1] = delim
                        THEN [s EXCEPT !.ct = Wrap(s.ct + 1)] ELSE s
             stored == Store(counted, s.writeindex, new_elements[i + 1])
         IN  YaRBc_putLoop(
                 [stored EXCEPT !.writeindex = Wrap(s.writeindex + 1) % cap],
                 new_elements, nbr_elements, i + 1)
    ELSE s

YaRBc_putN(s, new_elements, nbr_elements, only_complete) ==
    IF new_elements.null
    THEN Result(s, 0, <<>>)
    ELSE IF nbr_elements > YaRB_free(s) /\ only_complete
    THEN Result(s, 0, <<>>)
    ELSE LET n == IF nbr_elements > YaRB_free(s)
                  THEN YaRB_free(s) ELSE nbr_elements
         IN  Result(YaRBc_putLoop(s, new_elements.data, n, 0), n, <<>>)

RECURSIVE YaRBc_discardLoop(_, _, _)
YaRBc_discardLoop(s, nbr_elements, i) ==
    IF i < nbr_elements
    THEN LET counted == IF Load(s, s.readindex) = delim
                        THEN [s EXCEPT !.ct = Wrap(s.ct - 1)] ELSE s
         IN  YaRBc_discardLoop(
                 [counted EXCEPT !.readindex = Wrap(s.readindex + 1) % cap],
                 nbr_elements, i + 1)
    ELSE s

YaRBc_discard(s, nbr_elements) ==
    IF YaRB_size(s) > nbr_elements
    THEN Result(YaRBc_discardLoop(s, nbr_elements, 0), nbr_elements, <<>>)
    ELSE Result(YaRBc_flush(s), YaRB_size(s), <<>>)

\* A faulty get, against which C20 is tested: the counter of delimiter
\* bytes stays as it is when a delimiter byte leaves the buffer.
YaRBc_get_KeepsCount(s, returned_element) ==
    IF YaRB_isEmpty(s) \/ returned_element.null
    THEN Result(s, 0, <<>>)
    ELSE Result([s EXCEPT !.readindex = Wrap(s.readindex + 1) % cap],
                1, <<Load(s, s.readindex)>>)

YaRBc_get(s, returned_element) ==
    IF YaRB_isEmpty(s) \/ returned_element.null
    THEN Result(s, 0, <<>>)
    ELSE LET counted == IF Load(s, s.readindex) = delim
                        THEN [s EXCEPT !.ct = Wrap(s.ct - 1)] ELSE s
         IN  Result([counted EXCEPT !.readindex = Wrap(s.readindex + 1) % cap],
                    1, <<Load(s, s.readindex)>>)

RECURSIVE YaRBc_getLoop(_, _, _, _)
YaRBc_getLoop(s, nbr_elements, i, o) ==
    IF i < nbr_elements
    THEN LET counted == IF Load(s, s.readindex) = delim
                        THEN [s EXCEPT !.ct = Wrap(s.ct - 1)] ELSE s
         IN  YaRBc_getLoop(
                 [counted EXCEPT !.readindex = Wrap(s.readindex + 1) % cap],
                 nbr_elements, i + 1, Append(o, Load(s, s.readindex)))
    ELSE Result(s, nbr_elements, o)

YaRBc_getN(s, returned_elements, nbr_elements) ==
    IF returned_elements.null
    THEN Result(s, 0, <<>>)
    ELSE LET n == IF nbr_elements > YaRB_size(s)
                  THEN YaRB_size(s) ELSE nbr_elements
         IN  YaRBc_getLoop(s, n, 0, <<>>)

YaRBc_count(s) == s.ct

-----------------------------------------------------------------------------
(* The implementation with full array usage: YaRB2 (yarb.cpp) and, with    *)
(* CAPACITY in the place of cap, YaRB2t (yarb2t.hpp).                      *)

YaRB2_modcap(val) == IF cap = 0 THEN 0 ELSE val % cap

\* A faulty modcap2, against which C28 is tested: the value is not
\* reduced.
YaRB2_modcap2_Unreduced(val) == val

YaRB2_modcap2(val) == IF cap = 0 THEN 0 ELSE val % Wrap(2 * cap)

YaRB2_size(s) == YaRB2_modcap2(Wrap(s.writeindex - s.readindex))

YaRB2_free(s) == Wrap(cap - YaRB2_size(s))

YaRB2_capacity == cap

\* A faulty limit, against which C24 is tested: the limit of the classic
\* implementation.
YaRB2_limit_AsClassic == SIZE_MAX - 1

YaRB2_limit == SIZE_MAX \div 2

\* A faulty isFull, against which C37 is tested: a buffer without elements
\* to hold is never told full.
YaRB2_isFull_NeverOfNone(s) == cap # 0 /\ YaRB2_size(s) = cap

YaRB2_isFull(s) == YaRB2_size(s) = cap

YaRB2_isEmpty(s) == s.readindex = s.writeindex

\* A faulty flush, against which C14 is tested: readindex gets the slot of
\* writeindex, not its value.
YaRB2_flush_SameResidue(s) == [s EXCEPT !.readindex = YaRB2_modcap(s.writeindex)]

YaRB2_flush(s) == [s EXCEPT !.readindex = s.writeindex]

YaRB2_put(s, new_element) ==
    IF YaRB2_isFull(s)
    THEN Result(s, 0, <<>>)
    ELSE LET stored == Store(s, YaRB2_modcap(s.writeindex), new_element)
         IN  Result([stored EXCEPT
                        !.writeindex = YaRB2_modcap2(Wrap(s.writeindex + 1))],
                    1, <<>>)

RECURSIVE YaRB2_putLoop(_, _, _, _)
YaRB2_putLoop(s, new_elements, nbr_elements, i) ==
    IF i < nbr_elements
    THEN LET stored == Store(s, YaRB2_modcap(s.writeindex), new_elements[i + 1])
         IN  YaRB2_putLoop(
                 [stored EXCEPT
                     !.writeindex = YaRB2_modcap2(Wrap(s.writeindex + 1))],
                 new_elements, nbr_elements, i + 1)
    ELSE s

YaRB2_putN(s, new_elements, nbr_elements, only_complete) ==
    IF new_elements.null
    THEN Result(s, 0, <<>>)
    ELSE IF nbr_elements > YaRB2_free(s) /\ only_complete
    THEN Result(s, 0, <<>>)
    ELSE LET n == IF nbr_elements > YaRB2_free(s)
                  THEN YaRB2_free(s) ELSE nbr_elements
         IN  Result(YaRB2_putLoop(s, new_elements.data, n, 0), n, <<>>)

YaRB2_peek(s, peeked_element) ==
    IF YaRB2_isEmpty(s) \/ peeked_element.null
    THEN Result(s, 0, <<>>)
    ELSE Result(s, 1, <<Load(s, YaRB2_modcap(s.readindex))>>)

\* A faulty discard, against which C25 is tested: a discard of fewer
\* elements than are stored reports size().
YaRB2_discard_ReturnsSize(s, nbr_elements) ==
    IF YaRB2_size(s) > nbr_elements
    THEN LET diff_to_max == Wrap(Wrap(2 * cap) - s.readindex)
         IN  IF diff_to_max <= nbr_elements
             THEN Result([s EXCEPT !.readindex = Wrap(nbr_elements - diff_to_max)],
                         YaRB2_size(s), <<>>)
             ELSE Result([s EXCEPT !.readindex = Wrap(s.readindex + nbr_elements)],
                         YaRB2_size(s), <<>>)
    ELSE Result(YaRB2_flush(s), YaRB2_size(s), <<>>)

YaRB2_discard(s, nbr_elements) ==
    IF YaRB2_size(s) > nbr_elements
    THEN LET diff_to_max == Wrap(Wrap(2 * cap) - s.readindex)
         IN  IF diff_to_max <= nbr_elements
             THEN Result([s EXCEPT !.readindex = Wrap(nbr_elements - diff_to_max)],
                         nbr_elements, <<>>)
             ELSE Result([s EXCEPT !.readindex = Wrap(s.readindex + nbr_elements)],
                         nbr_elements, <<>>)
    ELSE Result(YaRB2_flush(s), YaRB2_size(s), <<>>)

YaRB2_get(s, returned_element) ==
    IF YaRB2_isEmpty(s) \/ returned_element.null
    THEN Result(s, 0, <<>>)
    ELSE Result([s EXCEPT !.readindex = YaRB2_modcap2(Wrap(s.readindex + 1))],
                1, <<Load(s, YaRB2_modcap(s.readindex))>>)

RECURSIVE YaRB2_getLoop(_, _, _, _)
YaRB2_getLoop(s, nbr_elements, i, o) ==
    IF i < nbr_elements
    THEN YaRB2_getLoop(
             [s EXCEPT !.readindex = YaRB2_modcap2(Wrap(s.readindex + 1))],
             nbr_elements, i + 1,
             Append(o, Load(s, YaRB2_modcap(s.readindex))))
    ELSE Result(s, nbr_elements, o)

YaRB2_getN(s, returned_elements, nbr_elements) ==
    IF returned_elements.null
    THEN Result(s, 0, <<>>)
    ELSE LET n == IF nbr_elements > YaRB2_size(s)
                  THEN YaRB2_size(s) ELSE nbr_elements
         IN  YaRB2_getLoop(s, n, 0, <<>>)


-----------------------------------------------------------------------------
(* The interface IYaRB: a call goes to the method of the object's class.   *)

size(s) == IF variant \in FullVariants THEN YaRB2_size(s) ELSE YaRB_size(s)

free(s) == IF variant \in FullVariants THEN YaRB2_free(s) ELSE YaRB_free(s)

Capacity == IF variant \in FullVariants THEN YaRB2_capacity ELSE YaRB_capacity

limit == IF variant \in FullVariants THEN YaRB2_limit ELSE YaRB_limit

isFull(s) == IF variant \in FullVariants THEN YaRB2_isFull(s) ELSE YaRB_isFull(s)

isEmpty(s) ==
    IF variant \in FullVariants THEN YaRB2_isEmpty(s) ELSE YaRB_isEmpty(s)

count(s) == YaRBc_count(s)

put(s, new_element) ==
    CASE variant \in ClassicVariants -> YaRB_put(s, new_element)
      [] variant \in CountingVariants -> YaRBc_put(s, new_element)
      [] variant \in FullVariants -> YaRB2_put(s, new_element)

putN(s, new_elements, nbr_elements, only_complete) ==
    CASE variant \in ClassicVariants ->
             YaRB_putN(s, new_elements, nbr_elements, only_complete)
      [] variant \in CountingVariants ->
             YaRBc_putN(s, new_elements, nbr_elements, only_complete)
      [] variant \in FullVariants ->
             YaRB2_putN(s, new_elements, nbr_elements, only_complete)

peek(s, peeked_element) ==
    IF variant \in FullVariants
    THEN YaRB2_peek(s, peeked_element) ELSE YaRB_peek(s, peeked_element)

discard(s, nbr_elements) ==
    CASE variant \in ClassicVariants -> YaRB_discard(s, nbr_elements)
      [] variant \in CountingVariants -> YaRBc_discard(s, nbr_elements)
      [] variant \in FullVariants -> YaRB2_discard(s, nbr_elements)

get(s, returned_element) ==
    CASE variant \in ClassicVariants -> YaRB_get(s, returned_element)
      [] variant \in CountingVariants -> YaRBc_get(s, returned_element)
      [] variant \in FullVariants -> YaRB2_get(s, returned_element)

getN(s, returned_elements, nbr_elements) ==
    CASE variant \in ClassicVariants ->
             YaRB_getN(s, returned_elements, nbr_elements)
      [] variant \in CountingVariants ->
             YaRBc_getN(s, returned_elements, nbr_elements)
      [] variant \in FullVariants ->
             YaRB2_getN(s, returned_elements, nbr_elements)

flush(s) ==
    CASE variant \in ClassicVariants -> YaRB_flush(s)
      [] variant \in CountingVariants -> YaRBc_flush(s)
      [] variant \in FullVariants -> YaRB2_flush(s)

-----------------------------------------------------------------------------
(* The state machine.                                                      *)

NoArgs ==
    [new_element |-> 0, pointer |-> nullptr, nbr_elements |-> 0,
     only_complete |-> FALSE]

\* The buffer as a call finds it.
Snapshot ==
    [readindex |-> readindex, writeindex |-> writeindex, arr |-> arr,
     ct |-> ct, fifo |-> fifo]

\* q without its first n elements.
Drop(q, n) == IF n >= Len(q) THEN <<>> ELSE SubSeq(q, n + 1, Len(q))

\* The first n elements of q.
Take(q, n) == IF n >= Len(q) THEN q ELSE SubSeq(q, 1, n)

\* The history after a call: put appends the elements it reports as added,
\* get and discard remove as many of the oldest elements as they report,
\* flush removes all.
History(name, a, r) ==
    CASE name \in {"put"} -> IF r.ret = 1 THEN Append(fifo, a.new_element) ELSE fifo
      [] name \in {"putN"} -> fifo \o Take(a.pointer.data, r.ret)
      [] name \in {"get", "getN", "discard"} -> Drop(fifo, r.ret)
      [] name \in {"flush"} -> <<>>
      [] OTHER -> fifo

\* The array of a new object.  The templates initialise arr with zeroes;
\* new uint8_t[cap] leaves the elements indeterminate.
NewArrays ==
    IF variant \in TemplateVariants
    THEN {[i \in 0..(cap - 1) |-> 0]}
    ELSE [0..(cap - 1) -> Byte]

\* The capacities an object of the class can have: the templates refuse
\* CAPACITY = 0.
Capacities ==
    IF variant \in TemplateVariants THEN 1..MaxCapacity ELSE 0..MaxCapacity

\* The caller has one buffer object only.
NoOther ==
    [role |-> "none", readindex |-> 0, writeindex |-> 0, arr |-> <<>>,
     ct |-> 0]

Init ==
    /\ other = NoOther
    /\ variant \in Variants
    /\ capacity \in Capacities
    /\ delim \in (IF variant \in CountingVariants THEN Byte ELSE {0})
    /\ readindex = 0
    /\ writeindex = 0
    /\ arr \in NewArrays
    /\ ct = 0
    /\ fifo = <<>>
    /\ op = "none"
    /\ args = NoArgs
    /\ ret = 0
    /\ out = <<>>
    /\ pre = [readindex |-> 0, writeindex |-> 0, arr |-> arr, ct |-> 0,
              fifo |-> <<>>]

\* The caller makes its calls one after the other, as setup() of the demo
\* sketch does: op is "none" when it is about to make a call, and the name
\* of the call when the call has returned and its result is at hand.
\* The call name(a) returns with result r.  The history is followed as long
\* as it holds at most one element more than the buffer has room for.
Return(name, a, r) ==
    /\ op = "none"
    /\ Len(History(name, a, r)) <= capacity + 1
    /\ readindex' = r.s.readindex
    /\ writeindex' = r.s.writeindex
    /\ arr' = r.s.arr
    /\ ct' = r.s.ct
    /\ fifo' = History(name, a, r)
    /\ op' = name
    /\ args' = a
    /\ ret' = r.ret
    /\ out' = r.out
    /\ pre' = Snapshot
    /\ UNCHANGED <<variant, capacity, delim, other>>

\* The numbers of elements a bulk call is asked for: from none to one more
\* than fits.
Counts == 0..(capacity + 1)

\* The numbers of elements a discard is asked for, the largest size_t among
\* them.
DiscardCounts == Counts \cup {SIZE_MAX}

Put ==
    \E b \in Byte :
        Return("put", [NoArgs EXCEPT !.new_element = b], put(Self(0), b))

PutN ==
    \E first \in Byte, n \in Counts, oc \in BOOLEAN :
        LET a == [NoArgs EXCEPT !.pointer = PointerTo(Source(first, n)),
                                !.nbr_elements = n, !.only_complete = oc]
        IN  Return("putN", a,
                   putN(Self(0), a.pointer, a.nbr_elements, a.only_complete))

PutNull ==
    \E n \in {0, capacity + 1}, oc \in BOOLEAN :
        Return("putN",
               [NoArgs EXCEPT !.nbr_elements = n, !.only_complete = oc],
               putN(Self(0), nullptr, n, oc))

Peek ==
    \E p \in {nullptr, PointerTo(<<>>)}, g \in Byte :
        Return("peek", [NoArgs EXCEPT !.pointer = p], peek(Self(g), p))

Discard ==
    \E n \in DiscardCounts :
        Return("discard", [NoArgs EXCEPT !.nbr_elements = n],
               discard(Self(0), n))

Get ==
    \E p \in {nullptr, PointerTo(<<>>)}, g \in Byte :
        Return("get", [NoArgs EXCEPT !.pointer = p], get(Self(g), p))

GetN ==
    \E n \in Counts, g \in Byte :
        Return("getN",
               [NoArgs EXCEPT !.pointer = PointerTo(<<>>), !.nbr_elements = n],
               getN(Self(g), PointerTo(<<>>), n))

GetNull ==
    \E n \in {0, capacity + 1} :
        Return("getN", [NoArgs EXCEPT !.nbr_elements = n],
               getN(Self(0), nullptr, n))

Flush ==
    Return("flush", NoArgs, Result(flush(Self(0)), 0, <<>>))

\* The caller is done with the result of the last call and goes on to the
\* next one.  The object is not touched.
Continue ==
    /\ op # "none"
    /\ op' = "none"
    /\ args' = NoArgs
    /\ ret' = 0
    /\ out' = <<>>
    /\ pre' = Snapshot
    /\ UNCHANGED <<variant, capacity, delim, readindex, writeindex, arr, ct,
                   fifo, other>>

Next ==
    \/ Continue
    \/ Put
    \/ PutN
    \/ PutNull
    \/ Peek
    \/ Discard
    \/ Get
    \/ GetN
    \/ GetNull
    \/ Flush

Spec == Init /\ [][Next]_vars


-----------------------------------------------------------------------------
(* A classic and a full-utilization buffer of the same capacity, given the *)
(* same calls.  The caller holds a YaRB as *this and a YaRB2 as other; it  *)
(* makes a call on the YaRB, then the same call on the YaRB2, and has both *)
(* results at hand before it goes on.                                      *)

\* The call name(a) on *this; g is what a load from beyond the array yields.
Call(name, a, g) ==
    CASE name = "put" -> put(Self(g), a.new_element)
      [] name = "putN" ->
             putN(Self(g), a.pointer, a.nbr_elements, a.only_complete)
      [] name = "peek" -> peek(Self(g), a.pointer)
      [] name = "discard" -> discard(Self(g), a.nbr_elements)
      [] name = "get" -> get(Self(g), a.pointer)
      [] name = "getN" -> getN(Self(g), a.pointer, a.nbr_elements)
      [] name = "flush" -> Result(flush(Self(g)), 0, <<>>)

\* What the const member functions of *this return.
Observed ==
    [size |-> size(Self(0)), free |-> free(Self(0)), capacity |-> Capacity,
     isEmpty |-> isEmpty(Self(0)), isFull |-> isFull(Self(0))]

\* Nothing observed yet.
NotObserved ==
    [size |-> 0, free |-> 0, capacity |-> 0, isEmpty |-> FALSE,
     isFull |-> FALSE]

\* The second object s, in the given role, with the results got from it.
Other(role, s, r, o, seen) ==
    [role |-> role, readindex |-> s.readindex, writeindex |-> s.writeindex,
     arr |-> s.arr, ct |-> s.ct, ret |-> r, out |-> o, seen |-> seen]

EquivInit ==
    /\ variant = "YaRB"
    /\ capacity \in Capacities
    /\ delim = 0
    /\ readindex = 0
    /\ writeindex = 0
    /\ arr \in NewArrays
    /\ ct = 0
    /\ fifo = <<>>
    /\ op = "none"
    /\ args = NoArgs
    /\ ret = 0
    /\ out = <<>>
    /\ pre = [readindex |-> 0, writeindex |-> 0, arr |-> arr, ct |-> 0,
              fifo |-> <<>>]
    /\ \E a \in [0..(capacity - 1) -> Byte] :
           other = Other("first", [readindex |-> 0, writeindex |-> 0,
                                   arr |-> a, ct |-> 0], 0, <<>>, NotObserved)

\* *this and other change places: other becomes the object the next call is
\* made on.
ChangePlaces(v, role, r, o, seen) ==
    /\ variant' = v
    /\ readindex' = other.readindex
    /\ writeindex' = other.writeindex
    /\ arr' = other.arr
    /\ ct' = other.ct
    /\ other' = Other(role, Self(0), r, o, seen)

\* A call on the YaRB.
EquivFirst ==
    /\ other.role = "first"
    /\ \/ Put
       \/ PutN
       \/ PutNull
       \/ Peek
       \/ Discard
       \/ Get
       \/ GetN
       \/ GetNull
       \/ Flush

\* The caller keeps what the YaRB returned and turns to the YaRB2.
EquivTurn ==
    /\ other.role = "first"
    /\ op # "none"
    /\ ChangePlaces("YaRB2", "replay", ret, out, Observed)
    /\ ret' = 0
    /\ out' = <<>>
    /\ UNCHANGED <<capacity, delim, fifo, op, args, pre>>

\* The same call on the YaRB2.
EquivReplay ==
    /\ other.role = "replay"
    /\ \E g \in Byte :
           LET r == Call(op, args, g)
           IN  /\ readindex' = r.s.readindex
               /\ writeindex' = r.s.writeindex
               /\ arr' = r.s.arr
               /\ ct' = r.s.ct
               /\ ret' = r.ret
               /\ out' = r.out
    /\ other' = [other EXCEPT !.role = "compare"]
    /\ UNCHANGED <<variant, capacity, delim, fifo, op, args, pre>>

\* The caller has found both results the same and turns back to the YaRB.
\* At the first difference it stops.
EquivBack ==
    /\ other.role = "compare"
    /\ ret = other.ret
    /\ out = other.out
    /\ Observed = other.seen
    /\ ChangePlaces("YaRB", "first", 0, <<>>, NotObserved)
    /\ op' = "none"
    /\ args' = NoArgs
    /\ ret' = 0
    /\ out' = <<>>
    /\ pre' = [readindex |-> other.readindex, writeindex |-> other.writeindex,
               arr |-> other.arr, ct |-> other.ct, fifo |-> fifo]
    /\ UNCHANGED <<capacity, delim, fifo>>

EquivNext ==
    \/ EquivFirst
    \/ EquivTurn
    \/ EquivReplay
    \/ EquivBack

EquivSpec == EquivInit /\ [][EquivNext]_vars

-----------------------------------------------------------------------------
(* A classic and a counting buffer of the same capacity, given the same    *)
(* calls.  The caller holds a YaRB as *this and a YaRBc, made with a       *)
(* delimiter of its choice, as other, and goes about as above.             *)

CountInit ==
    /\ variant = "YaRB"
    /\ capacity \in Capacities
    /\ delim \in Byte
    /\ readindex = 0
    /\ writeindex = 0
    /\ arr \in NewArrays
    /\ ct = 0
    /\ fifo = <<>>
    /\ op = "none"
    /\ args = NoArgs
    /\ ret = 0
    /\ out = <<>>
    /\ pre = [readindex |-> 0, writeindex |-> 0, arr |-> arr, ct |-> 0,
              fifo |-> <<>>]
    /\ \E a \in [0..capacity -> Byte] :
           other = Other("first", [readindex |-> 0, writeindex |-> 0,
                                   arr |-> a, ct |-> 0], 0, <<>>, NotObserved)

\* The caller keeps what the YaRB returned and turns to the YaRBc.
CountTurn ==
    /\ other.role = "first"
    /\ op # "none"
    /\ ChangePlaces("YaRBc", "replay", ret, out, Observed)
    /\ ret' = 0
    /\ out' = <<>>
    /\ UNCHANGED <<capacity, delim, fifo, op, args, pre>>

\* The caller has found both results the same and turns back to the YaRB.
\* At the first difference it stops.
CountBack ==
    /\ other.role = "compare"
    /\ ret = other.ret
    /\ out = other.out
    /\ Observed = other.seen
    /\ ChangePlaces("YaRB", "first", 0, <<>>, NotObserved)
    /\ op' = "none"
    /\ args' = NoArgs
    /\ ret' = 0
    /\ out' = <<>>
    /\ pre' = [readindex |-> other.readindex, writeindex |-> other.writeindex,
               arr |-> other.arr, ct |-> other.ct, fifo |-> fifo]
    /\ UNCHANGED <<capacity, delim, fifo>>

CountNext ==
    \/ EquivFirst
    \/ CountTurn
    \/ EquivReplay
    \/ CountBack

CountSpec == CountInit /\ [][CountNext]_vars

-----------------------------------------------------------------------------
(* Copies.  The caller makes a second object from *this, by the copy       *)
(* constructor or, for YaRB2t, by assignment to an object it has.          *)

\* YaRB::YaRB(const YaRB &rb).  memcpy reads at &(rb.arraypointer): from the
\* member that points to the array, not from the array; found are the cap
\* bytes that the pointer and the memory behind it are made of.
YaRB_copy(rb, found) ==
    [readindex |-> rb.readindex, writeindex |-> rb.writeindex,
     arr |-> found, ct |-> 0]

\* YaRB2::YaRB2(const YaRB2 &rb), which reads at &(rb.arraypointer) too.
YaRB2_copy(rb, found) ==
    [readindex |-> rb.readindex, writeindex |-> rb.writeindex,
     arr |-> found, ct |-> 0]

\* YaRBc::YaRBc(const YaRBc &rb), which reads at &(rb.arraypointer) too.
YaRBc_copy(rb, found) ==
    [readindex |-> rb.readindex, writeindex |-> rb.writeindex,
     arr |-> found, ct |-> rb.ct]

\* YaRBct::YaRBct(const YaRBct &rb).  &(rb.arr) is where the array is:
\* memcpy copies its CAPACITY+1 elements.
YaRBct_copy(rb) ==
    [readindex |-> rb.readindex, writeindex |-> rb.writeindex,
     arr |-> [i \in 0..(cap - 1) |-> rb.arr[i]], ct |-> rb.ct]

\* YaRB2t::YaRB2t(const YaRB2t &rb): memcpy copies the CAPACITY elements.
YaRB2t_copy(rb) ==
    [readindex |-> rb.readindex, writeindex |-> rb.writeindex,
     arr |-> [i \in 0..(cap - 1) |-> rb.arr[i]], ct |-> 0]

\* The elements i of the array that memcpy(arr+from, rb.arr+from, n) writes.
\* Those at cap and beyond are not elements of the array.
Copied(from, n) == {i \in 0..(cap - 1) : from <= i /\ i < from + n}

\* YaRB2t::operator=(const YaRB2t &rb) on the object a, which is not rb.
YaRB2t_assign(a, rb) ==
    LET r == YaRB2_modcap(rb.readindex)
        w == YaRB2_modcap(rb.writeindex)
        written == IF r <= w
                   THEN Copied(r, YaRB2_size(rb))
                   ELSE Copied(r, cap - r) \cup Copied(0, w)
    IN  [readindex |-> rb.readindex, writeindex |-> rb.writeindex,
         arr |-> [i \in 0..(cap - 1) |->
                      IF i \in written THEN rb.arr[i] ELSE a.arr[i]],
         ct |-> 0]

\* The classes that have a copy constructor which can be compiled: the one
\* of YaRBt initialises its array with arr{nullptr}, which no compiler
\* accepts.
Copyable == Variants \ {"YaRBt"}

\* The second object s in its role.
Second(role, s) ==
    [role |-> role, readindex |-> s.readindex, writeindex |-> s.writeindex,
     arr |-> s.arr, ct |-> s.ct]

Copy ==
    /\ op = "none"
    /\ other.role = "none"
    /\ variant \in Copyable
    /\ \E found \in [0..(cap - 1) -> Byte] :
           other' = Second("copy",
                           CASE variant = "YaRB" -> YaRB_copy(Self(0), found)
                             [] variant = "YaRB2" -> YaRB2_copy(Self(0), found)
                             [] variant = "YaRBc" -> YaRBc_copy(Self(0), found)
                             [] variant = "YaRBct" -> YaRBct_copy(Self(0))
                             [] variant = "YaRB2t" -> YaRB2t_copy(Self(0)))
    /\ UNCHANGED <<variant, capacity, delim, readindex, writeindex, arr, ct,
                   fifo, op, args, ret, out, pre>>

\* a = b, where b is *this and a is an object whose array holds anything.
Assign ==
    /\ op = "none"
    /\ other.role = "none"
    /\ variant = "YaRB2t"
    /\ \E a \in [0..(cap - 1) -> Byte] :
           other' = Second("assigned",
                           YaRB2t_assign([arr |-> a], Self(0)))
    /\ UNCHANGED <<variant, capacity, delim, readindex, writeindex, arr, ct,
                   fifo, op, args, ret, out, pre>>

\* The second object goes out of scope.
Destroy ==
    /\ other.role # "none"
    /\ other' = NoOther
    /\ UNCHANGED <<variant, capacity, delim, readindex, writeindex, arr, ct,
                   fifo, op, args, ret, out, pre>>

\* The calls on *this while it is the only object.
Alone ==
    /\ other.role = "none"
    /\ Next

CopyNext ==
    \/ Alone
    \/ Copy
    \/ Assign
    \/ Destroy

CopySpec == Init /\ [][CopyNext]_vars

-----------------------------------------------------------------------------
(* One writer and one reader on the same classic buffer: the main program  *)
(* calls put for one element and an interrupt handler calls get for one,   *)
(* or the other way round, as the README advises.  Each step is one load   *)
(* or one store of readindex, of writeindex or of an array element.  other *)
(* holds what each of the two has in its registers and where in its call   *)
(* it is; cap and arraypointer are const and are not loaded anew.          *)

\* A faulty order, against which C23 is tested: writeindex is advanced
\* before the element is stored.
YaRB_put_else_AdvanceFirst == <<"advance", "store">>

\* The statements of the else branch of put for one element, in their order.
YaRB_put_else == <<"store", "advance">>

\* The statements of the else branch of get for one element, in their order.
YaRB_get_else == <<"load", "advance">>

\* A caller that is not inside a call.
Idle == [pc |-> "idle", at |-> 0, readindex |-> 0, writeindex |-> 0,
         element |-> 0]

\* A new buffer, and neither of the two inside a call.  slots are the
\* indices of the array elements that hold unread elements, oldest first:
\* slots[i] is where fifo[i] was stored.
ConcInit ==
    /\ other = [role |-> "threads", writer |-> Idle, reader |-> Idle,
                slots |-> <<>>]
    /\ variant \in ClassicVariants
    /\ capacity \in Capacities
    /\ delim = 0
    /\ readindex = 0
    /\ writeindex = 0
    /\ arr \in NewArrays
    /\ ct = 0
    /\ fifo = <<>>
    /\ op = "none"
    /\ args = NoArgs
    /\ ret = 0
    /\ out = <<>>
    /\ pre = [readindex |-> 0, writeindex |-> 0, arr |-> arr, ct |-> 0,
              fifo |-> <<>>]

\* What a call of the writer or of the reader leaves behind when it returns.
Returned(name, a, r, o) ==
    /\ op' = name
    /\ args' = a
    /\ ret' = r
    /\ out' = o
    /\ pre' = Snapshot

NotReturned == UNCHANGED <<op, args, ret, out, pre>>

\* The main program calls put(new_element).
WriterCall ==
    \E new_element \in Byte :
        /\ other.writer.pc = "idle"
        /\ Len(fifo) <= capacity
        /\ other' = [other EXCEPT !.writer = [Idle EXCEPT
                         !.pc = "isFull", !.element = new_element]]
        /\ NotReturned
        /\ UNCHANGED <<variant, capacity, delim, readindex, writeindex, arr,
                       ct, fifo>>

\* if (this->isFull()) return 0; else ...  isFull() loads readindex, which
\* the reader may store to at any time, and writeindex, which the writer
\* alone stores to: the load of writeindex yields the same value wherever
\* it stands, so that the load of readindex is the one step that counts.
WriterIsFull ==
    /\ other.writer.pc = "isFull"
    /\ IF YaRB_isFull(Self(0))
       THEN /\ other' = [other EXCEPT !.writer = Idle]
            /\ Returned("put", [NoArgs EXCEPT
                                    !.new_element = other.writer.element],
                        0, <<>>)
       ELSE /\ other' = [other EXCEPT !.writer.pc = "else", !.writer.at = 1,
                                      !.writer.readindex = readindex,
                                      !.writer.writeindex = writeindex]
            /\ NotReturned
    /\ UNCHANGED <<variant, capacity, delim, readindex, writeindex, arr, ct,
                   fifo>>

\* The writer after the statement at hand: at the next statement of the else
\* branch, or back in the main program with return value 1.
WriterDone(slots) ==
    IF other.writer.at < Len(YaRB_put_else)
    THEN /\ other' = [other EXCEPT !.writer.at = @ + 1, !.slots = slots]
         /\ NotReturned
    ELSE /\ other' = [other EXCEPT !.writer = Idle, !.slots = slots]
         /\ Returned("put", [NoArgs EXCEPT
                                 !.new_element = other.writer.element],
                     1, <<>>)

\* arraypointer[writeindex] = new_element;
WriterStore ==
    /\ other.writer.pc = "else"
    /\ YaRB_put_else[other.writer.at] = "store"
    /\ arr' = Store(Self(0), other.writer.writeindex,
                    other.writer.element).arr
    /\ WriterDone(other.slots)
    /\ UNCHANGED <<variant, capacity, delim, readindex, writeindex, ct, fifo>>

\* writeindex = (writeindex + 1) % cap;  From this store on the element
\* counts as put.
WriterAdvance ==
    /\ other.writer.pc = "else"
    /\ YaRB_put_else[other.writer.at] = "advance"
    /\ writeindex' = Wrap(other.writer.writeindex + 1) % cap
    /\ fifo' = Append(fifo, other.writer.element)
    /\ WriterDone(Append(other.slots, other.writer.writeindex))
    /\ UNCHANGED <<variant, capacity, delim, readindex, arr, ct>>

\* The interrupt handler calls get(&x).
ReaderCall ==
    /\ other.reader.pc = "idle"
    /\ other' = [other EXCEPT !.reader = [Idle EXCEPT !.pc = "isEmpty"]]
    /\ NotReturned
    /\ UNCHANGED <<variant, capacity, delim, readindex, writeindex, arr, ct,
                   fifo>>

\* if (this->isEmpty() || !returned_element) return 0; else ...  isEmpty()
\* loads writeindex, which the writer may store to at any time, and
\* readindex, which the reader alone stores to.
ReaderIsEmpty ==
    /\ other.reader.pc = "isEmpty"
    /\ IF YaRB_isEmpty(Self(0))
       THEN /\ other' = [other EXCEPT !.reader = Idle]
            /\ Returned("get", [NoArgs EXCEPT !.pointer = PointerTo(<<>>)],
                        0, <<>>)
       ELSE /\ other' = [other EXCEPT !.reader.pc = "else", !.reader.at = 1,
                                      !.reader.readindex = readindex,
                                      !.reader.writeindex = writeindex]
            /\ NotReturned
    /\ UNCHANGED <<variant, capacity, delim, readindex, writeindex, arr, ct,
                   fifo>>

\* *returned_element = arraypointer[readindex]
ReaderLoad ==
    /\ other.reader.pc = "else"
    /\ YaRB_get_else[other.reader.at] = "load"
    /\ \E g \in Byte :
           other' = [other EXCEPT
                         !.reader.element = Load(Self(g), other.reader.readindex),
                         !.reader.at = @ + 1]
    /\ NotReturned
    /\ UNCHANGED <<variant, capacity, delim, readindex, writeindex, arr, ct,
                   fifo>>

\* readindex = (readindex + 1) % cap; return 1;  With this store the oldest
\* element counts as got.
ReaderAdvance ==
    /\ other.reader.pc = "else"
    /\ YaRB_get_else[other.reader.at] = "advance"
    /\ readindex' = Wrap(other.reader.readindex + 1) % cap
    /\ fifo' = Drop(fifo, 1)
    /\ other' = [other EXCEPT !.reader = Idle, !.slots = Drop(@, 1)]
    /\ Returned("get", [NoArgs EXCEPT !.pointer = PointerTo(<<>>)],
                1, <<other.reader.element>>)
    /\ UNCHANGED <<variant, capacity, delim, writeindex, arr, ct>>

ConcNext ==
    \/ WriterCall
    \/ WriterIsFull
    \/ WriterStore
    \/ WriterAdvance
    \/ ReaderCall
    \/ ReaderIsEmpty
    \/ ReaderLoad
    \/ ReaderAdvance

ConcSpec == ConcInit /\ [][ConcNext]_vars

-----------------------------------------------------------------------------
(* The limit: a caller asks the class for limit() and constructs an object *)
(* of a capacity of its choice, up to the largest value of a size_t.  The  *)
(* array of the object is left out: only cap and the modulus of the index  *)
(* arithmetic are followed.                                                *)

\* What the indices are reduced by: cap in the classic and the counting
\* implementation (readindex = (readindex + 1) % cap), 2 * cap in YaRB2 and
\* YaRB2t (modcap2).
modulus == IF variant \in FullVariants THEN Wrap(2 * cap) ELSE cap

LimitInit ==
    /\ other = NoOther
    /\ variant \in Variants
    /\ capacity \in (IF variant \in TemplateVariants
                     THEN 1..SIZE_MAX ELSE 0..SIZE_MAX)
    /\ delim = 0
    /\ readindex = 0
    /\ writeindex = 0
    /\ arr = <<>>
    /\ ct = 0
    /\ fifo = <<>>
    /\ op = "none"
    /\ args = NoArgs
    /\ ret = 0
    /\ out = <<>>
    /\ pre = [readindex |-> 0, writeindex |-> 0, arr |-> <<>>, ct |-> 0,
              fifo |-> <<>>]

\* The caller takes note of a number the class gave it.
Noted(name, r) ==
    /\ op' = name
    /\ ret' = r
    /\ UNCHANGED <<variant, capacity, delim, readindex, writeindex, arr, ct,
                   fifo, args, out, pre, other>>

\* Serial.println(YaRB::limit(), DEC);
Limit ==
    /\ op = "none"
    /\ Noted("limit", limit)

\* YaRB ringbuf(capacity);  The constructor sets cap, and with it the
\* modulus.
Construct ==
    /\ op = "none"
    /\ Noted("constructor", modulus)

LimitNext ==
    \/ Limit
    \/ Construct

LimitSpec == LimitInit /\ [][LimitNext]_vars

-----------------------------------------------------------------------------
(* Statement by statement.  One caller makes one call after the other, and *)
(* the calls that store to or load from the array are followed through     *)
(* their statements: other holds the place in the call at hand, op is the  *)
(* call at hand or, when the caller is back with its result, the call just *)
(* made, and pre is the object as that call found it.                      *)

\* The index of the array element that belongs to an index member:
\* arraypointer[writeindex] in the classic and the counting classes,
\* arraypointer[modcap(writeindex)] in YaRB2 and YaRB2t.
Slot(index) == IF variant \in FullVariants THEN YaRB2_modcap(index) ELSE index

\* The index member after one element: (writeindex + 1) % cap, resp.
\* modcap2(writeindex + 1).
Advanced(index) ==
    IF variant \in FullVariants
    THEN YaRB2_modcap2(Wrap(index + 1)) ELSE Wrap(index + 1) % cap

\* The statements that put, get and discard execute for one element, in
\* their order; the counting classes first look whether the element is the
\* delimiter.
Body ==
    LET tally == IF variant \in CountingVariants THEN <<"count">> ELSE <<>>
    IN  CASE op \in {"put", "putN"} -> tally \o YaRB_put_else
          [] op \in {"get", "getN"} -> tally \o YaRB_get_else
          [] op \in {"discard"} -> tally \o <<"advance">>
          [] OTHER -> <<>>

\* The caller outside of the library, after a call that handled i elements
\* one after the other and executed so many statements on the object.
Outside(i, statements) ==
    [role |-> "statements", pc |-> "outside", at |-> 0, i |-> i, n |-> 0,
     data |-> <<>>, statements |-> statements]

StepInit ==
    /\ other = Outside(0, 0)
    /\ variant \in Variants
    /\ capacity \in Capacities
    /\ delim \in (IF variant \in CountingVariants THEN Byte ELSE {0})
    /\ readindex = 0
    /\ writeindex = 0
    /\ arr \in NewArrays
    /\ ct = 0
    /\ fifo = <<>>
    /\ op = "none"
    /\ args = NoArgs
    /\ ret = 0
    /\ out = <<>>
    /\ pre = [readindex |-> 0, writeindex |-> 0, arr |-> arr, ct |-> 0,
              fifo |-> <<>>]

\* The call name(a) has made its tests and goes on to handle n elements,
\* those of data if it is a put.
Enter(name, a, n, data) ==
    /\ other.pc = "outside"
    /\ op = "none"
    /\ op' = name
    /\ args' = a
    /\ ret' = 0
    /\ out' = <<>>
    /\ pre' = Snapshot
    /\ other' = [Outside(0, 0) EXCEPT !.pc = "inside", !.at = 1, !.n = n,
                                      !.data = data]
    /\ UNCHANGED <<variant, capacity, delim, readindex, writeindex, arr, ct,
                   fifo>>

\* The call name(a) returns with result r and has no loop.
Direct(name, a, r) ==
    /\ other.pc = "outside"
    /\ op = "none"
    /\ op' = name
    /\ args' = a
    /\ ret' = r.ret
    /\ out' = r.out
    /\ pre' = Snapshot
    /\ other' = Outside(0, 1)
    /\ readindex' = r.s.readindex
    /\ writeindex' = r.s.writeindex
    /\ arr' = r.s.arr
    /\ ct' = r.s.ct
    /\ fifo' = History(name, a, r)
    /\ UNCHANGED <<variant, capacity, delim>>

\* if (nbr_elements > most) nbr_elements = most;  with free() resp. size()
\* for most: the number of rounds of the for loop.
Clamped_Unlimited(nbr_elements, most) == nbr_elements
Clamped(nbr_elements, most) ==
    IF nbr_elements > most THEN most ELSE nbr_elements

\* put(new_element): if (this->isFull()) return 0; else ...
StepPut ==
    \E new_element \in Byte :
        LET a == [NoArgs EXCEPT !.new_element = new_element]
        IN  IF isFull(Self(0))
            THEN Direct("put", a, Result(Self(0), 0, <<>>))
            ELSE /\ Len(fifo) <= capacity
                 /\ Enter("put", a, 1, <<new_element>>)

\* put(new_elements, nbr_elements, only_complete), up to the for loop.
StepPutN ==
    \E first \in Byte, nbr_elements \in Counts, only_complete \in BOOLEAN :
        LET new_elements == PointerTo(Source(first, nbr_elements))
            a == [NoArgs EXCEPT !.pointer = new_elements,
                                !.nbr_elements = nbr_elements,
                                !.only_complete = only_complete]
            n == Clamped(nbr_elements, free(Self(0)))
        IN  IF nbr_elements > free(Self(0)) /\ only_complete
            THEN Direct("putN", a, Result(Self(0), 0, <<>>))
            ELSE /\ Len(fifo) + n <= capacity + 1
                 /\ Enter("putN", a, n, new_elements.data)

\* get(returned_element): if (this->isEmpty() || !returned_element)
\* return 0; else ...
StepGet ==
    LET a == [NoArgs EXCEPT !.pointer = PointerTo(<<>>)]
    IN  IF isEmpty(Self(0))
        THEN Direct("get", a, Result(Self(0), 0, <<>>))
        ELSE Enter("get", a, 1, <<>>)

\* get(returned_elements, nbr_elements), up to the for loop.
StepGetN ==
    \E nbr_elements \in Counts :
        LET n == Clamped(nbr_elements, size(Self(0)))
        IN  Enter("getN", [NoArgs EXCEPT !.pointer = PointerTo(<<>>),
                                         !.nbr_elements = nbr_elements],
                  n, <<>>)

\* discard(nbr_elements): a loop in the counting classes if elements
\* remain, an assignment to readindex otherwise.
StepDiscard ==
    \E nbr_elements \in DiscardCounts :
        LET a == [NoArgs EXCEPT !.nbr_elements = nbr_elements]
        IN  IF variant \in CountingVariants /\ size(Self(0)) > nbr_elements
            THEN Enter("discard", a, nbr_elements, <<>>)
            ELSE Direct("discard", a, discard(Self(0), nbr_elements))

StepPeek ==
    /\ other.pc = "outside"
    /\ \E g \in Byte :
           Direct("peek", [NoArgs EXCEPT !.pointer = PointerTo(<<>>)],
                  peek(Self(g), PointerTo(<<>>)))

StepFlush ==
    /\ other.pc = "outside"
    /\ Direct("flush", NoArgs, Result(flush(Self(0)), 0, <<>>))

\* The statement the call at hand is about to execute, if it has one.
Statement ==
    IF other.pc = "inside" /\ other.i < other.n
    THEN Body[other.at] ELSE "none"

\* The call after a statement other than the last of the loop body.
Stepped == [other EXCEPT !.at = @ + 1, !.statements = @ + 1]

\* if (*new_elements == delim) ct++;  resp.
\* if (arraypointer[readindex] == delim) ct--;
StepCount ==
    /\ Statement = "count"
    /\ \E g \in Byte :
           ct' = IF op \in {"put", "putN"}
                 THEN IF other.data[other.i + 1] = delim
                      THEN Wrap(ct + 1) ELSE ct
                 ELSE IF Load(Self(g), Slot(readindex)) = delim
                      THEN Wrap(ct - 1) ELSE ct
    /\ other' = Stepped
    /\ UNCHANGED <<variant, capacity, delim, readindex, writeindex, arr, fifo,
                   op, args, ret, out, pre>>

\* arraypointer[writeindex] = *new_elements;
StepStore ==
    /\ Statement = "store"
    /\ arr' = Store(Self(0), Slot(writeindex), other.data[other.i + 1]).arr
    /\ other' = Stepped
    /\ UNCHANGED <<variant, capacity, delim, readindex, writeindex, ct, fifo,
                   op, args, ret, out, pre>>

\* *returned_elements = arraypointer[readindex];
StepLoad ==
    /\ Statement = "load"
    /\ \E g \in Byte : out' = Append(out, Load(Self(g), Slot(readindex)))
    /\ other' = Stepped
    /\ UNCHANGED <<variant, capacity, delim, readindex, writeindex, arr, ct,
                   fifo, op, args, ret, pre>>

\* writeindex = (writeindex + 1) % cap; new_elements++;  resp.
\* readindex = (readindex + 1) % cap; returned_elements++;  and i++ of the
\* for loop.  With this store the element counts as put resp. as removed.
StepAdvance ==
    /\ Statement = "advance"
    /\ IF op \in {"put", "putN"}
       THEN /\ writeindex' = Advanced(writeindex)
            /\ fifo' = Append(fifo, other.data[other.i + 1])
            /\ UNCHANGED readindex
       ELSE /\ readindex' = Advanced(readindex)
            /\ fifo' = Drop(fifo, 1)
            /\ UNCHANGED writeindex
    /\ other' = [other EXCEPT !.at = 1, !.i = @ + 1, !.statements = @ + 1]
    /\ UNCHANGED <<variant, capacity, delim, arr, ct, op, args, ret, out, pre>>

\* return nbr_elements;  resp. return 1;
StepReturn ==
    /\ other.pc = "inside"
    /\ other.i = other.n
    /\ ret' = other.n
    /\ other' = Outside(other.i, other.statements)
    /\ UNCHANGED <<variant, capacity, delim, readindex, writeindex, arr, ct,
                   fifo, op, args, out, pre>>

\* The caller is done with the result of the last call and goes on to the
\* next one.
StepContinue ==
    /\ other.pc = "outside"
    /\ op # "none"
    /\ op' = "none"
    /\ args' = NoArgs
    /\ ret' = 0
    /\ out' = <<>>
    /\ pre' = Snapshot
    /\ other' = Outside(0, 0)
    /\ UNCHANGED <<variant, capacity, delim, readindex, writeindex, arr, ct,
                   fifo>>

\* The processor executes the call at hand.
Execute ==
    \/ StepCount
    \/ StepStore
    \/ StepLoad
    \/ StepAdvance
    \/ StepReturn

StepNext ==
    \/ StepPut
    \/ StepPutN
    \/ StepGet
    \/ StepGetN
    \/ StepDiscard
    \/ StepPeek
    \/ StepFlush
    \/ StepContinue
    \/ Execute

\* A call, once made, is executed: the library has no statement that waits.
StepSpec == StepInit /\ [][StepNext]_vars /\ WF_vars(Execute)

-----------------------------------------------------------------------------
(* Properties.  Now is the object as it is; pre is the object as the last  *)
(* call found it; op, args, ret and out describe that call.                *)

Now == Self(0)

\* The last call was one of these.
Called(names) == op \in names

\* The member variables the last call left as they were.
SameIndices == readindex = pre.readindex /\ writeindex = pre.writeindex

SameObject == SameIndices /\ arr = pre.arr /\ ct = pre.ct

\* C1: after each call 0 <= size() <= capacity() and
\* size() + free() = capacity(), the three read as numbers.
C1_SizeWithinCapacity ==
    /\ 0 <= size(Now)
    /\ size(Now) <= Capacity
    /\ size(Now) + free(Now) = Capacity

\* C2: the buffer is a bounded FIFO queue of length capacity(): get and peek
\* deliver the accepted bytes that were not removed yet, oldest first, and
\* never more bytes are held than capacity().
C2_FifoRefinement ==
    /\ Len(fifo) <= Capacity
    /\ Called({"get", "getN"}) => out = Take(pre.fifo, ret)
    /\ Called({"peek"}) /\ ret = 1 => out = Take(pre.fifo, 1)

\* C3: every transfer changes size() by exactly the count it reports: put
\* adds its return value, get and discard take theirs away, flush leaves 0
\* and peek changes nothing.
C3_OccupancyAccounting ==
    /\ Called({"put", "putN"}) => size(Now) = size(pre) + ret
    /\ Called({"get", "getN", "discard"}) => size(Now) = size(pre) - ret
    /\ Called({"flush"}) => size(Now) = 0
    /\ Called({"peek"}) => size(Now) = size(pre)


\* The elements the buffer s holds, in the order get() would deliver them.
Contents(s) ==
    getN([readindex |-> s.readindex, writeindex |-> s.writeindex,
          arr |-> s.arr, ct |-> s.ct, oob |-> 0],
         PointerTo(<<>>), size(s)).out

\* C4: a bulk put with only_complete set and nbr_elements > free() returns 0
\* and leaves size(), both indices, the stored elements and the delimiter
\* count as they were.
C4_AllOrNothingPut ==
    Called({"putN"}) /\ args.only_complete /\ args.nbr_elements > free(pre)
        => /\ ret = 0
           /\ size(Now) = size(pre)
           /\ SameObject
           /\ Contents(Now) = Contents(pre)

\* C4 happens: an all-or-nothing put of more elements than are free has
\* returned, at a moment when some of them would have fit.
C4_Witness ==
    /\ Called({"putN"})
    /\ ~args.pointer.null
    /\ args.only_complete
    /\ args.nbr_elements > free(pre)
    /\ free(pre) > 0
    /\ size(pre) > 0

\* C5: a bulk put without only_complete and with nbr_elements > free()
\* returns the free() of before the call, has stored that many source
\* elements, in order, behind the elements already stored, and leaves the
\* buffer full: isFull() and size() = capacity().
C5_BestEffortPut ==
    Called({"putN"}) /\ ~args.pointer.null /\ ~args.only_complete
    /\ args.nbr_elements > free(pre)
        => /\ ret = free(pre)
           /\ Contents(Now) = Contents(pre) \o Take(args.pointer.data, free(pre))
           /\ isFull(Now)
           /\ size(Now) = Capacity

\* C6: put(byte) returns 1 exactly if fewer than capacity() elements were
\* stored; then the byte is the newest stored element and size() has grown
\* by 1; else it returns 0 and indices and elements are as they were.
C6_SinglePut ==
    Called({"put"})
        => /\ ret \in {0, 1}
           /\ ret = 1 <=> size(pre) < Capacity
           /\ ret = 1 => /\ Contents(Now) = Append(Contents(pre), args.new_element)
                         /\ size(Now) = size(pre) + 1
           /\ ret = 0 => SameIndices /\ arr = pre.arr

\* The smaller of two numbers.
Min(a, b) == IF a < b THEN a ELSE b

\* C7: a bulk get with a destination returns min(n, size()), writes that many
\* elements, the oldest first, lowers size() by the count returned and leaves
\* writeindex alone.
C7_BulkGet ==
    Called({"getN"}) /\ ~args.pointer.null
        => /\ ret = Min(args.nbr_elements, size(pre))
           /\ Len(out) = ret
           /\ out = Take(pre.fifo, ret)
           /\ size(Now) = size(pre) - ret
           /\ writeindex = pre.writeindex

\* C8: a bulk put from a null source and a get, a bulk get and a peek into a
\* null destination return 0, write nothing and leave indices, elements and
\* delimiter count as they were.
C8_NullPointer ==
    Called({"putN", "get", "getN", "peek"}) /\ args.pointer.null
        => ret = 0 /\ out = <<>> /\ SameObject

\* C8 happens: a bulk get into a null destination has returned, asked for
\* elements that were there to be had.
C8_Witness ==
    /\ Called({"getN"})
    /\ args.pointer.null
    /\ args.nbr_elements > 0
    /\ size(pre) > 0
    /\ ~isEmpty(pre)

\* C9: peek changes neither index, nor size(), nor the elements; with
\* elements stored it returns 1 and reports the oldest; on an empty buffer
\* it returns 0 and writes nothing; a get() right after a peek() that
\* returned 1 delivers the same byte and lowers size() by 1.
C9_PeekNonMutation ==
    Called({"peek"}) /\ ~args.pointer.null
        => /\ SameObject
           /\ size(Now) = size(pre)
           /\ size(pre) > 0 => ret = 1 /\ out = Take(pre.fifo, 1)
           /\ size(pre) = 0 => ret = 0 /\ out = <<>>
           /\ ret = 1 =>
                  \E g \in Byte :
                      LET next == get(Self(g), PointerTo(<<>>))
                      IN  /\ next.ret = 1
                          /\ next.out = out
                          /\ size(next.s) = size(Now) - 1

C11_PartialDiscard ==
    Called({"discard"}) /\ args.nbr_elements < size(pre)
        => /\ ret = args.nbr_elements
           /\ size(Now) = size(pre) - args.nbr_elements
           /\ \A g \in Byte :
                  /\ get(Self(g), PointerTo(<<>>)).out
                         = Take(Drop(pre.fifo, args.nbr_elements), 1)
                  /\ peek(Self(g), PointerTo(<<>>)).out
                         = Take(Drop(pre.fifo, args.nbr_elements), 1)
           /\ variant \notin FullVariants
                  => readindex = (pre.readindex + args.nbr_elements) % cap

\* C12: isEmpty() is true exactly when size() = 0, and isFull() is true
\* exactly when size() = capacity().
C12_EmptyFullMeaning ==
    /\ isEmpty(Now) <=> size(Now) = 0
    /\ isFull(Now) <=> size(Now) = Capacity

\* C13: on a buffer with capacity > 0, isFull() and isEmpty() are never
\* both true.
C13_FullEmptyExclusion ==
    Capacity > 0 => ~(isFull(Now) /\ isEmpty(Now))

\* C13 happens: a buffer with capacity > 0 that has been read from has been
\* filled up by a put and reports full.
C13_Witness ==
    /\ Capacity > 0
    /\ isFull(Now)
    /\ size(Now) = Capacity
    /\ Called({"put", "putN"})
    /\ readindex # 0

\* C14: flush() gives readindex the very value of writeindex, leaves
\* writeindex and the array alone, and leaves size() = 0 and isEmpty()
\* true; a second flush() changes nothing.
C14_Flush ==
    Called({"flush"})
        => /\ readindex = pre.writeindex
           /\ writeindex = pre.writeindex
           /\ arr = pre.arr
           /\ size(Now) = 0
           /\ isEmpty(Now)
           /\ flush(Now) = Now

\* C14 happens: a full-utilization buffer holding elements, its writeindex
\* in the upper half of its range, has been flushed.
C14_Witness ==
    /\ Called({"flush"})
    /\ variant \in FullVariants
    /\ pre.writeindex >= cap
    /\ pre.readindex # pre.writeindex
    /\ size(pre) > 0

\* C15: a bulk put of n <= free() elements followed by a bulk get of n
\* elements returns those n elements in their order.  Stated for the states
\* in which the buffer is empty, where the elements put are the ones a get
\* is to deliver next.
C15_RoundTrip ==
    isEmpty(Now) =>
        \A first \in Byte, n \in Counts, only_complete \in BOOLEAN, g \in Byte :
            n <= free(Now) =>
                LET stored == putN(Self(g), PointerTo(Source(first, n)), n,
                                   only_complete)
                    back == getN(stored.s, PointerTo(<<>>), n)
                IN  /\ stored.ret = n
                    /\ back.ret = n
                    /\ back.out = Source(first, n)

\* C16: a YaRB and a YaRB2 of the same capacity, given the same calls,
\* return the same values and write the same bytes in every call, and their
\* size(), free(), capacity(), isEmpty() and isFull() agree after it.
C16_ModelEquivalence ==
    other.role = "compare"
        => /\ ret = other.ret
           /\ out = other.out
           /\ Observed = other.seen

\* The second object, with g for what a load from beyond its array yields.
TheOther(g) ==
    [readindex |-> other.readindex, writeindex |-> other.writeindex,
     arr |-> other.arr, ct |-> other.ct, oob |-> g]

\* The second object and *this have the same indices and size(), and
\* successive gets on the one deliver what successive gets on the other
\* deliver.
SameAsOther ==
    /\ other.readindex = readindex
    /\ other.writeindex = writeindex
    /\ size(TheOther(0)) = size(Now)
    /\ \A g \in Byte :
           getN(TheOther(g), PointerTo(<<>>), size(TheOther(g))).out
               = getN(Self(g), PointerTo(<<>>), size(Now)).out

\* C17: an object made by the copy constructor has the indices and the
\* size() of its source, and get delivers from it the elements that get
\* delivers from the source.
C17_CopyConstruction ==
    other.role = "copy" => SameAsOther

\* C18: after a = b between two YaRB2t objects, a.size() = b.size() and
\* successive gets on a deliver what successive gets on b deliver, whatever
\* state b is in: empty, partly filled, wrapped, or full with readindex
\* not 0.
C18_Assignment ==
    other.role = "assigned" => SameAsOther

\* How many elements of q are b.
CountOf(q, b) == Cardinality({i \in 1..Len(q) : q[i] = b})

\* C19: in YaRBc and YaRBct, after every call count() is the number of
\* elements stored that equal the delimiter.
C19_DelimiterTally ==
    variant \in CountingVariants
        => /\ count(Now) = CountOf(Contents(Now), delim)
           /\ count(Now) = CountOf(fifo, delim)

\* C19 happens: a partial discard has taken delimiter bytes out of a
\* counting buffer and has left delimiter bytes behind.
C19_Witness ==
    /\ variant \in CountingVariants
    /\ Called({"discard"})
    /\ ret < size(pre)
    /\ ct > 0
    /\ pre.ct > ct
    /\ CountOf(Take(pre.fifo, ret), delim) > 0

\* What calls of get(byte*) on s, one after the other and k at most, deliver
\* up to the first delimiter byte or the first call that returns 0.
RECURSIVE Drain(_, _)
Drain(s, k) ==
    IF k = 0
    THEN <<>>
    ELSE LET r == get(s, PointerTo(<<>>))
         IN  IF r.ret = 0 THEN <<>>
             ELSE IF r.out = <<delim>> THEN r.out
             ELSE r.out \o Drain(r.s, k - 1)

\* C20: in YaRBc and YaRBct, whenever count() >= 1, calls of get(byte*) with
\* no put in between deliver a delimiter byte after size() successful calls
\* at most, that is before the buffer reports empty.
C20_CompleteMessage ==
    variant \in CountingVariants /\ count(Now) >= 1
        => \A g \in Byte :
               LET d == Drain(Self(g), size(Now))
               IN  /\ Len(d) >= 1
                   /\ Len(d) <= size(Now)
                   /\ d[Len(d)] = delim

\* C20 happens: a get on a counting buffer has delivered a byte that is not
\* the delimiter, and count() says that a delimiter is still to come, behind
\* another byte that is not one.
C20_Witness ==
    /\ variant \in CountingVariants
    /\ Called({"get"})
    /\ ret = 1
    /\ out # <<delim>>
    /\ count(Now) >= 1
    /\ Len(Drain(Now, size(Now))) >= 2

\* C21: no put, of one element or of many, changes readindex, and no get,
\* peek, discard or flush changes writeindex.
C21_CursorDisjointness ==
    /\ Called({"put", "putN"}) => readindex = pre.readindex
    /\ Called({"get", "getN", "peek", "discard", "flush"})
           => writeindex = pre.writeindex

\* C21 happens: a get, discard or flush has moved readindex in a buffer
\* whose indices had both moved before.
C21_Witness ==
    /\ Called({"flush", "discard", "getN"})
    /\ readindex # pre.readindex
    /\ pre.writeindex # 0
    /\ pre.readindex # 0

\* The member variables of an object.
Members == {"readindex", "writeindex", "arr", "ct"}

\* The objects that a call of put, of one element or of many, can make of
\* *this.
AfterPut ==
    {put(Now, b).s : b \in Byte}
    \cup {putN(Now, PointerTo(Source(first, n)), n, oc).s :
              first \in Byte, n \in Counts, oc \in BOOLEAN}

\* The objects that a call of get, of one element or of many, of peek, of
\* discard or of flush can make of *this.
AfterGet ==
    {get(Self(g), PointerTo(<<>>)).s : g \in Byte}
    \cup {getN(Self(g), PointerTo(<<>>), n).s : g \in Byte, n \in Counts}
    \cup {peek(Self(g), PointerTo(<<>>)).s : g \in Byte}
    \cup {discard(Now, n).s : n \in DiscardCounts}
    \cup {flush(Now)}

\* The member variables in which one of the objects differs from *this.
Updated(objects) ==
    {m \in Members : \E s \in objects : \E g \in Byte : s[m] # Self(g)[m]}

\* C22: in every class, the counting ones among them, no member variable is
\* updated both by a put and by a get: what the puts write and what the
\* gets write have nothing in common.
C22_DisjointUpdates ==
    Updated(AfterPut) \cap Updated(AfterGet) = {}

\* C23: with one writer in put and one reader in get on the same classic
\* buffer, interleaved load by load and store by store, every element the
\* reader obtains is the oldest element put and not yet got; the reader
\* loads an array element only after the writer has stored it, the writer
\* stores only to array elements that hold nothing unread, and never more
\* than capacity elements are unread.
C23_WriterReaderInterleaving ==
    /\ (Called({"get"}) /\ ret = 1)
           => /\ pre.fifo # <<>>
              /\ out = <<Head(pre.fifo)>>
    /\ (other.reader.pc = "else" /\ YaRB_get_else[other.reader.at] = "load")
           => /\ other.slots # <<>>
              /\ Head(other.slots) = other.reader.readindex
    /\ (other.writer.pc = "else" /\ YaRB_put_else[other.writer.at] = "store")
           => \A i \in DOMAIN other.slots :
                  other.slots[i] # other.writer.writeindex
    /\ \A i \in DOMAIN other.slots : Load(Now, other.slots[i]) = fifo[i]
    /\ Len(fifo) <= capacity

\* C23 happens: the reader has got an element, and readindex has gone round
\* the end of the array, while the writer is in the else branch of a put
\* that it began when the buffer held other elements.
C23_Witness ==
    /\ Called({"get"})
    /\ ret = 1
    /\ readindex < pre.readindex
    /\ other.writer.pc = "else"
    /\ other.writer.readindex # readindex
    /\ capacity > 1

\* C24: limit() is 2^W - 2 in the classic and the counting classes and
\* (2^W - 1) div 2 in YaRB2 and YaRB2t, W being the width of size_t; an
\* object of a capacity up to limit() has the modulus capacity + 1 resp.
\* 2 * capacity as the integers give it, and an object of capacity
\* limit() + 1 has not: there the modulus has wrapped.
C24_LimitTight ==
    LET W == WordBits
        exact == IF variant \in FullVariants THEN 2 * capacity
                 ELSE capacity + 1
    IN  /\ Called({"limit"})
               => ret = (IF variant \in FullVariants
                         THEN (2^W - 1) \div 2 ELSE 2^W - 2)
        /\ (Called({"constructor"}) /\ capacity <= limit) => ret = exact
        /\ (Called({"constructor"}) /\ capacity = limit + 1)
               => (ret # exact /\ exact > SIZE_MAX)

\* C24 happens: a YaRB2 or YaRB2t of capacity limit() + 1 has been
\* constructed, and its modulus has wrapped to 0.
C24_Witness ==
    /\ Called({"constructor"})
    /\ variant \in FullVariants
    /\ capacity = limit + 1
    /\ ret = 0

C26_AllOrNothingGet ==
    Called({"getN"}) /\ args.nbr_elements > size(pre)
        => /\ ret = 0
           /\ out = <<>>
           /\ size(Now) = size(pre)
           /\ readindex = pre.readindex
           /\ writeindex = pre.writeindex
           /\ arr = pre.arr

\* C27: in YaRB, YaRBt, YaRBc and YaRBct, after any sequence of calls,
\* readindex and writeindex are at least 0 and less than capacity + 1, the
\* length of the array.
C27_ClassicIndexRange ==
    variant \notin FullVariants
        => /\ readindex \in 0..capacity
           /\ writeindex \in 0..capacity

\* C28: in YaRB2 and YaRB2t of a capacity above 0, after any sequence of
\* calls, readindex and writeindex are at least 0 and less than
\* 2 * capacity, and the array is read and written at the index modulo
\* capacity: a get or peek delivers the elements at readindex mod capacity
\* and following, a put stores at writeindex mod capacity and following and
\* nowhere else.
C28_FullIndexRange ==
    (variant \in FullVariants /\ capacity > 0)
        => /\ readindex \in 0..(2 * capacity - 1)
           /\ writeindex \in 0..(2 * capacity - 1)
           /\ Called({"get", "getN", "peek"})
                  => \A i \in DOMAIN out :
                         out[i] = pre.arr[(pre.readindex + i - 1) % capacity]
           /\ Called({"put", "putN"})
                  => LET new_elements ==
                             IF op = "put" THEN <<args.new_element>>
                             ELSE args.pointer.data
                         At(k) == {i \in 1..ret :
                                       (pre.writeindex + i - 1) % capacity = k}
                     IN  \A k \in DOMAIN arr :
                             arr[k] = IF At(k) = {} THEN pre.arr[k]
                                      ELSE new_elements[
                                               CHOOSE i \in At(k) :
                                                   \A j \in At(k) : j <= i]

\* C28 happens: a get of several elements from a YaRB2 or YaRB2t has
\* delivered elements from the end and from the beginning of the array,
\* with readindex at capacity or above before the call.
C28_Witness ==
    /\ variant \in FullVariants
    /\ Called({"getN"})
    /\ ret > 1
    /\ pre.readindex >= capacity
    /\ (pre.readindex % capacity) + ret > capacity

\* C29: in YaRB2 and YaRB2t of a capacity from 1 on, a power of two or
\* not, size() returns (writeindex - readindex) mod (2 * capacity), the
\* difference and the remainder taken in the integers, which is the number
\* of elements stored; also with writeindex below readindex.
C29_FullSize ==
    (variant \in FullVariants /\ capacity >= 1 /\ capacity <= limit)
        => /\ size(Now) = (writeindex - readindex) % (2 * capacity)
           /\ size(Now) = Len(fifo)

\* The values, as integers, that discard(nbr_elements) computes on the way
\* to the new readindex of object s: diff_to_max and the new readindex of
\* the branch taken in YaRB, YaRBt, YaRB2 and YaRB2t, readindex + 1 of each
\* iteration in YaRBc and YaRBct; none when the buffer is flushed.
DiscardValues(s, nbr_elements) ==
    CASE size(s) <= nbr_elements -> {}
      [] variant \in ClassicVariants ->
             LET diff_to_max == cap - s.readindex
             IN  {diff_to_max,
                  IF nbr_elements > Wrap(diff_to_max)
                  THEN nbr_elements - Wrap(diff_to_max)
                  ELSE s.readindex + nbr_elements}
      [] variant \in CountingVariants ->
             {YaRBc_discardLoop(s, i, 0).readindex + 1 :
                  i \in 0..(nbr_elements - 1)}
      [] variant \in FullVariants ->
             LET diff_to_max == Wrap(2 * cap) - s.readindex
             IN  {2 * cap, diff_to_max,
                  IF Wrap(diff_to_max) <= nbr_elements
                  THEN nbr_elements - Wrap(diff_to_max)
                  ELSE s.readindex + nbr_elements}

\* C30: for every n from 0 to 2^W - 1 and in every state, discard(n)
\* arrives at the new readindex through values that are all at least 0 and
\* at most 2^W - 1, and the new readindex is what the integers give:
\* (readindex + min(n, size())) modulo capacity + 1 resp. 2 * capacity.
C30_OverflowSafeDiscard ==
    LET n == args.nbr_elements
        m == IF variant \in FullVariants THEN 2 * capacity ELSE capacity + 1
    IN  (Called({"discard"}) /\ m > 0)
            => /\ DiscardValues(pre, n) \subseteq 0..SIZE_MAX
               /\ readindex = (pre.readindex + Min(n, size(pre))) % m

\* The index member index after k elements.
RECURSIVE Ahead(_, _)
Ahead(index, k) == IF k = 0 THEN index ELSE Advanced(Ahead(index, k - 1))

\* C31: a put, of one element or in each round of its loop, stores the
\* element before it advances writeindex, and a get loads the element
\* before it advances readindex; so that at every statement of every call
\* the array elements from readindex up to, not including, writeindex hold
\* the elements put and not yet removed, oldest first.
C31_DataBeforeCursor ==
    /\ (Statement = "advance" /\ op \in {"put", "putN"})
           => Load(Now, Slot(writeindex)) = other.data[other.i + 1]
    /\ (Statement = "advance" /\ op \in {"get", "getN"})
           => Len(out) = other.i + 1
    /\ LET steps == {k \in 0..(2 * capacity + 1) :
                         Ahead(readindex, k) = writeindex}
           d == CHOOSE k \in steps : \A j \in steps : k <= j
       IN  /\ steps # {}
           /\ \A k \in 0..(d - 1) :
                  /\ k + 1 <= Len(fifo)
                  /\ \A g \in Byte :
                         Load(Self(g), Slot(Ahead(readindex, k))) = fifo[k + 1]

\* C34: every call returns, and it does so after a bounded number of
\* statements: put and get of several elements go through their loop exactly
\* as often as the count they return, which is at most
\* min(nbr_elements, free()) resp. min(nbr_elements, size()); discard of the
\* counting classes goes through its loop at most nbr_elements < size()
\* times; every other call, put and get of one element included, executes
\* its statements once at most.  A call at hand has never handled more
\* elements than it set out to, and no call waits for anything: the
\* processor going on with it is all it needs to return.
C34_Terminates ==
    LET Bounded ==
            /\ other.pc = "inside" =>
                   /\ other.i <= other.n
                   /\ other.i < other.n => other.at \in 1..Len(Body)
                   /\ other.statements = other.i * Len(Body) + other.at - 1
            /\ (other.pc = "outside" /\ op # "none") =>
                   /\ op \in {"putN"} =>
                          /\ other.i = ret
                          /\ ret <= Min(args.nbr_elements, free(pre))
                   /\ op \in {"getN"} =>
                          /\ other.i = ret
                          /\ ret <= Min(args.nbr_elements, size(pre))
                   /\ op \in {"discard"} =>
                          IF variant \in CountingVariants
                          THEN other.i > 0 =>
                                   /\ other.i = args.nbr_elements
                                   /\ args.nbr_elements < size(pre)
                          ELSE other.i = 0
                   /\ op \in {"put", "get"} => other.i = ret /\ ret <= 1
                   /\ op \in {"peek", "flush"} => other.i = 0
                   /\ other.statements
                          <= (IF other.i = 0 THEN 1 ELSE other.i * 3)
    IN  /\ []Bounded
        /\ (other.pc = "inside") ~> (other.pc = "outside")

\* A get that asked for more elements than the buffer held has gone through
\* its loop twice and returned 2.
C34_Witness ==
    /\ other.pc = "outside"
    /\ op \in {"getN"}
    /\ args.nbr_elements > size(pre)
    /\ size(pre) = 2
    /\ other.i = 2
    /\ ret = 2

\* while (rb.put(x));  on s, given up after k calls: the object after the
\* loop, the number of calls that returned 1, and whether a call returned 0.
RECURSIVE Fill(_, _, _)
Fill(s, x, k) ==
    IF k = 0
    THEN [s |-> s, puts |-> 0, stopped |-> FALSE]
    ELSE LET r == put(s, x)
         IN  IF r.ret = 0
             THEN [s |-> r.s, puts |-> 0, stopped |-> TRUE]
             ELSE [Fill(r.s, x, k - 1) EXCEPT !.puts = @ + 1]

\* C32: in every state a buffer of a capacity above 0 gets into, after
\* discard too, calls of put for one element with no removal in between
\* return 1 exactly free() times and then 0, so that the loop
\* while (rb.put(x)); comes to its end, and then isFull() holds and size()
\* is capacity().
C32_FillLoopStops ==
    capacity > 0
        => \A x \in Byte :
               LET f == Fill(Now, x, free(Now) + 1)
               IN  /\ f.stopped
                   /\ f.puts = free(Now)
                   /\ isFull(f.s)
                   /\ size(f.s) = Capacity

\* while (rb.get(&x)) ...;  on s, given up after k calls: the object after
\* the loop, the bytes delivered, and whether a call returned 0.
RECURSIVE DrainAll(_, _)
DrainAll(s, k) ==
    IF k = 0
    THEN [s |-> s, out |-> <<>>, stopped |-> FALSE]
    ELSE LET r == get(s, PointerTo(<<>>))
         IN  IF r.ret = 0
             THEN [s |-> r.s, out |-> <<>>, stopped |-> TRUE]
             ELSE [DrainAll(r.s, k - 1) EXCEPT !.out = r.out \o @]

\* C33: in every state, calls of get for one element with no put in between
\* return 1 exactly size() times, deliver the stored bytes oldest first, and
\* then return 0, so that the loop while (rb.get(&x)) comes to its end, and
\* then isEmpty() holds.
C33_DrainLoopStops ==
    \A g \in Byte :
        LET d == DrainAll(Self(g), size(Now) + 1)
        IN  /\ d.stopped
            /\ Len(d.out) = size(Now)
            /\ d.out = fifo
            /\ isEmpty(d.s)

\* C35: every element of the array that put, get, peek and discard read or
\* write, and every range of bytes that the assignment operator of YaRB2t
\* copies, lies inside the array: its indices are at least 0 and less than
\* the length the array was allocated with.
C35_StorageBounds ==
    /\ Called({"put", "putN"}) =>
           \A k \in 0..(ret - 1) :
               Slot(Ahead(pre.writeindex, k)) \in DOMAIN arr
    /\ Called({"get", "getN", "peek"}) =>
           \A k \in 0..(ret - 1) :
               Slot(Ahead(pre.readindex, k)) \in DOMAIN arr
    /\ (Called({"discard"}) /\ variant \in CountingVariants
            /\ size(pre) > args.nbr_elements) =>
           \A k \in 0..(ret - 1) :
               Slot(Ahead(pre.readindex, k)) \in DOMAIN arr
    /\ other.role = "assigned" =>
           LET r == YaRB2_modcap(readindex)
               w == YaRB2_modcap(writeindex)
           IN  IF r <= w
               THEN r + YaRB2_size(Now) <= cap
               ELSE r + (cap - r) <= cap /\ w <= cap

\* C36: a YaRBc, whatever its delimiter, and a YaRB of the same capacity,
\* given the same calls of put, get, peek, discard and flush, return the
\* same values and write the same bytes in every call, and their size(),
\* free(), capacity(), isEmpty() and isFull() agree after it.
C36_CountingRefinement ==
    (variant = "YaRBc" /\ other.role = "compare")
        => /\ ret = other.ret
           /\ out = other.out
           /\ Observed.size = other.seen.size
           /\ Observed.free = other.seen.free
           /\ Observed.capacity = other.seen.capacity
           /\ Observed.isEmpty = other.seen.isEmpty
           /\ Observed.isFull = other.seen.isFull

\* C37: a YaRB or YaRB2 made with capacity 0 has size() 0 and free() 0, is
\* both empty and full, returns 0 from every put, get, peek and discard,
\* writes no byte to the caller, never changes readindex or writeindex, and
\* never divides by zero: the modulus of YaRB is cap, which is 1, and modcap
\* and modcap2 of YaRB2 return 0 without dividing.
C37_ZeroCapacityInert ==
    (variant \in {"YaRB", "YaRB2"} /\ capacity = 0)
        => /\ size(Now) = 0
           /\ free(Now) = 0
           /\ isEmpty(Now)
           /\ isFull(Now)
           /\ Called({"put", "putN", "get", "getN", "peek", "discard"})
                  => ret = 0 /\ out = <<>>
           /\ readindex = 0
           /\ writeindex = 0
           /\ variant = "YaRB" => cap = 1
           /\ variant = "YaRB2" =>
                  /\ cap = 0
                  /\ YaRB2_modcap(Wrap(writeindex + 1)) = 0
                  /\ YaRB2_modcap2(Wrap(writeindex + 1)) = 0

\* C37 happens: a YaRB2 of capacity 0 was asked to put one element, as much
\* of it as fits, and returned 0.
C37_Witness ==
    /\ variant = "YaRB2"
    /\ capacity = 0
    /\ Called({"putN"})
    /\ args.nbr_elements = 1
    /\ ~args.only_complete
    /\ ~args.pointer.null
    /\ ret = 0

=============================================================================
